---- MODULE Spec2Model ----
(***************************************************************************)
(* State-machine model of the Streamlit business-analysis chatbot          *)
(* (src/app.py, src/agents/base_agent.py).                                 *)
(*                                                                         *)
(* One step of the model is one execution of the script main(): Streamlit  *)
(* runs the script top to bottom once per user event, and st.rerun() stops *)
(* the current execution and queues another one that carries no event.     *)
(* The variables are the keys of st.session_state, the value held by the   *)
(* task selectbox, and the pending-rerun flag.                             *)
(***************************************************************************)
EXTENDS Integers, Sequences, FiniteSets, TLC

VARIABLES
    conversation,               \* list of Turns
    company_info,               \* committed Profile (a dict, {} at start)
    selected_task,              \* committed Task or None
    agent,                      \* agent object (named by its task) or None
    question_phase,
    questions_asked,
    current_questions,
    answers,
    final_response_generated,
    follow_up_count,
    last_company_info,
    last_task,
    ratings,                    \* dict Turn index (0-based) -> rating
    show_follow_up,
    analysis_error,
    question_cache,             \* dict cache key -> question list
    api_call_count,
    task_widget,                \* value held by the "Choose a Task" selectbox
    pc,                         \* "idle": waiting for the user; "rerun": st.rerun() queued
    last,                       \* what the last script execution did (observation only)
    agent_raises,               \* the task's agent class lets a failed analysis raise
    keyed                       \* cache keys computed for two Profiles (KeySpec only)

vars == <<conversation, company_info, selected_task, agent, question_phase,
          questions_asked, current_questions, answers, final_response_generated,
          follow_up_count, last_company_info, last_task, ratings, show_follow_up,
          analysis_error, question_cache, api_call_count, task_widget, pc, last,
          agent_raises, keyed>>

----------------------------------------------------------------------------
(* Bounds of the model *)

MaxRated == 1           \* the user rates at most MaxRated Turns of a conversation
MaxAgentFailures == 1   \* at most MaxAgentFailures agent calls of a conversation fail
MaxApiCalls == 7        \* cap of api_call_count

----------------------------------------------------------------------------
(* Python values *)

None == "None"
EmptyDict == [k \in {} |-> None]
EmptyList == << >>

DictGet(d, k, default) == IF k \in DOMAIN d THEN d[k] ELSE default
DictSet(d, k, v) == [x \in DOMAIN d \cup {k} |-> IF x = k THEN v ELSE d[x]]

Min(a, b) == IF a < b THEN a ELSE b
Take(s, n) == SubSeq(s, 1, Min(n, Len(s)))

max_follow_ups == 5

TaskOptions == <<"Strategic Planning", "Organizational Assessment",
                 "Operational Efficiency Analysis", "Stakeholder Engagement Strategy">>

AGENT_CLASSES ==
    [t \in {TaskOptions[i] : i \in 1..Len(TaskOptions)} |-> t]

----------------------------------------------------------------------------
(* Inputs: company-info forms, backend responses *)

\* Values typed into the sidebar form (lines 185-188): two complete forms that
\* differ in one field, and one without the company name.
ProfileInputs ==
    { [name |-> "Acme", industry |-> "Retail", size |-> "50", description |-> ""],
      [name |-> "Acme", industry |-> "Retail", size |-> "50", description |-> "shops"],
      [name |-> "", industry |-> "Retail", size |-> "", description |-> ""] }

\* Entries of the task selectbox the user picks (line 218): one of two tasks.  The
\* selectbox starts on its blank entry; the user does not go back to it.
TaskInputs == {TaskOptions[1], TaskOptions[2]}

\* Values the user gives the rating slider (line 290).
RatingInputs == {3, 5}

\* The user leaves a selectbox on its first option, and types nothing or a text.
ChoiceInputs == {1}
TextInputs == {"", "some text"}

\* Items of the JSON array the backend is asked for (lines 81-88).
ItemMCQ(n) == [type |-> "MCQ", question |-> n, options |-> <<"a", "b", "c", "d">>]
ItemRadio(n) == [type |-> "Radio", question |-> n, options |-> <<"x", "y", "z">>]
ItemInputNoOpts(n) == [type |-> "Input", question |-> n]
ItemInput(n) == [type |-> "Input", question |-> n, options |-> EmptyList]
ItemMCQEmptyOpts(n) == [type |-> "MCQ", question |-> n, options |-> EmptyList]
ItemRadioNoOpts(n) == [type |-> "Radio", question |-> n]
ItemNoQuestion == [type |-> "MCQ", options |-> <<"a", "b">>]
ItemNoType == [question |-> "q?", options |-> <<"a", "b">>]
ItemOtherType(n) == [type |-> "Slider", question |-> n, options |-> <<"a", "b">>]

\* Response text as a sequence of tokens: a code fence labelled json, a bare code
\* fence, a JSON document, other text.
FenceJson == [kind |-> "fence_json"]
Fence == [kind |-> "fence"]
Prose == [kind |-> "prose"]
JsonArray(items) == [kind |-> "json", array |-> TRUE, items |-> items]
JsonNumber == [kind |-> "json", array |-> FALSE, items |-> EmptyList]

\* A backend response: generate_content raises, or .text raises, or .text is given.
Response(text) == [call |-> "ok", text_ok |-> TRUE, text |-> text]
CallFails == [call |-> "error", text_ok |-> FALSE, text |-> EmptyList]
TextFails == [call |-> "ok", text_ok |-> FALSE, text |-> EmptyList]

\* The backend responses that occur: seven items of which six are valid, a
\* failed call, text that is no JSON, and a fenced array without a valid item.
ResponsePool ==
    << Response(<<FenceJson, JsonArray(<<ItemMCQ("q1"), ItemMCQEmptyOpts("q2"),
                                         ItemInputNoOpts("q3"), ItemNoType, ItemInput("q4"),
                                         ItemMCQ("q5"), ItemRadio("q6")>>), Fence>>),
       CallFails,
       Response(<<Prose>>),
       Response(<<Fence, JsonArray(<<ItemNoType, ItemRadioNoOpts("r1"), ItemNoQuestion,
                                     ItemOtherType("s1")>>), Fence>>) >>

ResponseInputs == 1..Len(ResponsePool)

\* Outcome of one completion call made by an agent.
AgentOutcomes == {"ok", "error"}

----------------------------------------------------------------------------
(* Question generation: generate_task_questions, fallback_questions *)

normalize_company_info(info) ==
    [name |-> DictGet(info, "name", ""),
     industry |-> DictGet(info, "industry", ""),
     size |-> DictGet(info, "size", ""),
     description |-> DictGet(info, "description", "")]

\* json.dumps(d, sort_keys=True) of a dict of strings: the pairs in key order.
JsonDumpsSorted(d) ==
    << <<"description", d.description>>, <<"industry", d.industry>>,
       <<"name", d.name>>, <<"size", d.size>> >>

\* f"{selected_task}_{json.dumps(normalize_company_info(info), sort_keys=True)}",
\* with the strings kept whole; CacheKeyText below builds the same key character
\* by character.
CacheKey(task, info) == <<task, "_", JsonDumpsSorted(normalize_company_info(info))>>

fallback_questions ==
    << [type |-> "MCQ", question |-> "What is the companys main focus?",
        options |-> <<"AI", "Finance", "Retail", "Healthcare">>],
       [type |-> "Radio", question |-> "Is the company profitable?",
        options |-> <<"Yes", "No", "Unsure">>],
       [type |-> "Input", question |-> "Describe your key product.", options |-> EmptyList] >>

RECURSIVE LStrip(_, _)
LStrip(text, kinds) ==
    IF text # EmptyList /\ Head(text).kind \in kinds THEN LStrip(Tail(text), kinds) ELSE text

RECURSIVE RStrip(_, _)
RStrip(text, kinds) ==
    IF text # EmptyList /\ text[Len(text)].kind \in kinds
    THEN RStrip(SubSeq(text, 1, Len(text) - 1), kinds)
    ELSE text

\* Lines 97-100: strip the markdown fences.
StripFences(text) ==
    IF text # EmptyList /\ Head(text).kind = "fence_json"
    THEN RStrip(LStrip(text, {"fence_json", "fence"}), {"fence"})
    ELSE IF text # EmptyList /\ Head(text).kind = "fence"
    THEN RStrip(LStrip(text, {"fence"}), {"fence"})
    ELSE text

\* json.loads succeeds iff the text is exactly one JSON document.
JsonLoadsOk(text) == Len(text) = 1 /\ text[1].kind = "json"

\* Lines 108-113: the item as appended to valid_questions, or nothing.
KeepItem(q) ==
    IF "type" \in DOMAIN q /\ "question" \in DOMAIN q
    THEN IF q.type \in {"MCQ", "Radio"} /\ "options" \in DOMAIN q
         THEN <<q>>
         ELSE IF q.type = "Input"
              THEN <<[type |-> q.type, question |-> q.question,
                      options |-> DictGet(q, "options", EmptyList)]>>
              ELSE EmptyList
    ELSE EmptyList

RECURSIVE ValidQuestions(_)
ValidQuestions(items) ==
    IF items = EmptyList THEN EmptyList
    ELSE KeepItem(Head(items)) \o ValidQuestions(Tail(items))

SelectQuestions_NoFallback(valid_questions) == Take(valid_questions, 5)

\* Lines 115-120.
SelectQuestions(valid_questions) ==
    IF valid_questions # EmptyList THEN Take(valid_questions, 5) ELSE fallback_questions

\* Lines 91-128: the returned list, and whether increment_api_call ran.
generate_task_questions(task, info, response) ==
    IF response.call # "ok"
    THEN [questions |-> fallback_questions, counted |-> FALSE]
    ELSE IF ~response.text_ok
    THEN [questions |-> fallback_questions, counted |-> TRUE]
    ELSE LET text == StripFences(response.text) IN
         IF ~JsonLoadsOk(text)
         THEN [questions |-> fallback_questions, counted |-> TRUE]
         ELSE IF ~text[1].array
         THEN [questions |-> fallback_questions, counted |-> TRUE]
         ELSE [questions |-> SelectQuestions(ValidQuestions(text[1].items)),
               counted |-> TRUE]

----------------------------------------------------------------------------
(* Agents: BaseAgent *)

\* generate_final_response: the returned string; raised is never set, since the
\* method catches every exception of the completion call.
generate_final_response(outcome) ==
    IF outcome = "ok"
    THEN [raised |-> FALSE, text |-> "analysis"]
    ELSE [raised |-> FALSE, text |-> "Error generating response: e"]

generate_follow_up_response_Raises(outcome) ==
    IF outcome = "ok"
    THEN [raised |-> FALSE, text |-> "reply"]
    ELSE [raised |-> TRUE, text |-> "e"]

\* generate_follow_up_response: the bare except returns a fixed string.
generate_follow_up_response(outcome) ==
    IF outcome = "ok"
    THEN [raised |-> FALSE, text |-> "reply"]
    ELSE [raised |-> FALSE, text |-> "Unable to process follow-up question."]

----------------------------------------------------------------------------
(* One execution of main(): the sections of the script, in order.  S is the   *)
(* session state during the execution; S.rerun is set by st.rerun().          *)

Truthy(v) == v # "" /\ v # None

DictEq(a, b) == DOMAIN a = DOMAIN b /\ \A k \in DOMAIN a : a[k] = b[k]

\* What an execution did: the outcome of the company-info form and the Profile it
\* carried, the handler that acted, the value of the answer widget if the question
\* form was submitted, how the question set was resolved and from which backend
\* response, and the outcome of the agent's completion call.
NoTrace ==
    [form |-> "none", submitted |-> EmptyDict, act |-> "none", answer |-> EmptyList,
     gen |-> "none", resp |-> 0, completion |-> "none"]

NoEvent == [type |-> "none"]

\* No cache key has been computed.
NoKeys == [done |-> FALSE]

Turn(role, content, final) ==
    [role |-> role, content |-> content, is_final_or_follow_up |-> final]

\* Line 190.
FormComplete(form) == Truthy(form.name) /\ Truthy(form.industry)

CompanyInfoChanged_Always(S, new) == TRUE

\* Line 197.
CompanyInfoChanged(S, new) == ~DictEq(new, S.company_info)

CompanyInfoReset_KeepsCache(S, new) ==
    [S EXCEPT !.company_info = new,
              !.last_company_info = new,
              !.selected_task = None,
              !.current_questions = EmptyList,
              !.answers = EmptyList,
              !.question_phase = TRUE,
              !.questions_asked = 0,
              !.final_response_generated = FALSE,
              !.follow_up_count = 0,
              !.ratings = EmptyDict,
              !.show_follow_up = FALSE,
              !.analysis_error = None,
              !.rerun = TRUE,
              !.last.form = "changed"]

\* Lines 199-213.
CompanyInfoReset(S, new) ==
    [S EXCEPT !.company_info = new,
              !.last_company_info = new,
              !.selected_task = None,
              !.current_questions = EmptyList,
              !.answers = EmptyList,
              !.question_phase = TRUE,
              !.questions_asked = 0,
              !.final_response_generated = FALSE,
              !.follow_up_count = 0,
              !.ratings = EmptyDict,
              !.show_follow_up = FALSE,
              !.question_cache = EmptyDict,
              !.analysis_error = None,
              !.rerun = TRUE,
              !.last.form = "changed"]

\* Lines 184-215: the company-info form.
CompanyInfoForm(S, ev) ==
    IF ev.type # "profile" THEN S
    ELSE IF ~FormComplete(ev.form) THEN [S EXCEPT !.last.form = "invalid"]
    ELSE LET new == normalize_company_info(ev.form)
             T == [S EXCEPT !.last.submitted = new]
         IN  IF CompanyInfoChanged(T, new)
             THEN CompanyInfoReset(T, new)
             ELSE [T EXCEPT !.last.form = "same"]

\* Line 219.
TaskChanged(S) == Truthy(S.task_widget) /\ S.task_widget # S.selected_task

TaskReset_ClearsCache(S) ==
    [S EXCEPT !.selected_task = S.task_widget,
              !.conversation = EmptyList,
              !.agent = AGENT_CLASSES[S.task_widget],
              !.current_questions = EmptyList,
              !.answers = EmptyList,
              !.question_phase = TRUE,
              !.questions_asked = 0,
              !.final_response_generated = FALSE,
              !.follow_up_count = 0,
              !.ratings = EmptyDict,
              !.show_follow_up = FALSE,
              !.last_task = S.task_widget,
              !.question_cache = EmptyDict,
              !.analysis_error = None,
              !.rerun = TRUE,
              !.last.act = "task_changed"]

\* Lines 220-234.
TaskReset(S) ==
    [S EXCEPT !.selected_task = S.task_widget,
              !.conversation = EmptyList,
              !.agent = AGENT_CLASSES[S.task_widget],
              !.current_questions = EmptyList,
              !.answers = EmptyList,
              !.question_phase = TRUE,
              !.questions_asked = 0,
              !.final_response_generated = FALSE,
              !.follow_up_count = 0,
              !.ratings = EmptyDict,
              !.show_follow_up = FALSE,
              !.last_task = S.task_widget,
              !.analysis_error = None,
              !.rerun = TRUE,
              !.last.act = "task_changed"]

\* Lines 218-234: the task selectbox.
TaskSelection(S) == IF TaskChanged(S) THEN TaskReset(S) ELSE S

NeedQuestions_NoProfile(S) ==
    /\ Truthy(S.task_widget)
    /\ Truthy(S.selected_task)
    /\ S.current_questions = EmptyList

\* Lines 236-241.
NeedQuestions(S) ==
    /\ Truthy(S.task_widget)
    /\ Truthy(S.selected_task)
    /\ DOMAIN S.company_info # {}
    /\ S.current_questions = EmptyList

CacheHit_Never(S, key) == FALSE

\* Line 243.
CacheHit(S, key) == key \in DOMAIN S.question_cache

\* Lines 244-245.
UseCached(S, key) ==
    [S EXCEPT !.current_questions = S.question_cache[key],
              !.last.gen = "hit"]

GenerateAndStore_Replaces(S, key, r) ==
    LET g == generate_task_questions(S.task_widget, S.company_info, ResponsePool[r]) IN
    [S EXCEPT !.api_call_count = IF g.counted THEN @ + 1 ELSE @,
              !.question_cache = DictSet(EmptyDict, key, g.questions),
              !.current_questions = g.questions,
              !.last.gen = "miss",
              !.last.resp = r]

\* Lines 247-250.
GenerateAndStore(S, key, r) ==
    LET g == generate_task_questions(S.task_widget, S.company_info, ResponsePool[r]) IN
    [S EXCEPT !.api_call_count = IF g.counted THEN @ + 1 ELSE @,
              !.question_cache = DictSet(@, key, g.questions),
              !.current_questions = g.questions,
              !.last.gen = "miss",
              !.last.resp = r]

\* Lines 236-250: resolve the question set.
ResolveQuestions(S, r) ==
    IF NeedQuestions(S)
    THEN LET key == CacheKey(S.task_widget, S.company_info) IN
         IF CacheHit(S, key) THEN UseCached(S, key) ELSE GenerateAndStore(S, key, r)
    ELSE S

\* Lines 252-269: the Clear History button.
ClearHistory(S, ev) ==
    IF ev.type # "clear" THEN S
    ELSE [S EXCEPT !.conversation = EmptyList,
                   !.agent = None,
                   !.selected_task = None,
                   !.question_phase = TRUE,
                   !.questions_asked = 0,
                   !.current_questions = EmptyList,
                   !.answers = EmptyList,
                   !.final_response_generated = FALSE,
                   !.follow_up_count = 0,
                   !.ratings = EmptyDict,
                   !.show_follow_up = FALSE,
                   !.last_task = None,
                   !.api_call_count = 0,
                   !.question_cache = EmptyDict,
                   !.analysis_error = None,
                   !.rerun = TRUE,
                   !.last.act = "clear"]

RatingFormShown_AlsoRated(S, idx) ==
    /\ idx \in 0..(Len(S.conversation) - 1)
    /\ S.conversation[idx + 1].role = "assistant"
    /\ S.conversation[idx + 1].is_final_or_follow_up

\* Lines 284-288: the rating form of Turn idx is shown.
RatingFormShown(S, idx) ==
    /\ idx \in 0..(Len(S.conversation) - 1)
    /\ S.conversation[idx + 1].role = "assistant"
    /\ S.conversation[idx + 1].is_final_or_follow_up
    /\ idx \notin DOMAIN S.ratings

\* Lines 292-295.
StoreRating(S, idx, rating) ==
    [S EXCEPT !.ratings = DictSet(@, idx, rating),
              !.show_follow_up =
                  IF idx = Len(S.conversation) - 1 /\ ~S.show_follow_up THEN TRUE ELSE @,
              !.rerun = TRUE,
              !.last.act = "rated"]

\* Lines 284-297: the chat display with its rating forms.
RatingForms(S, ev) ==
    IF ev.type = "rate" /\ RatingFormShown(S, ev.idx)
    THEN StoreRating(S, ev.idx, ev.rating)
    ELSE S

\* Line 300.
QuestionFormShown(S) ==
    S.question_phase /\ S.questions_asked < Len(S.current_questions)

\* Lines 305-308: the value of the answer widget.
WidgetAnswer(question, ev) ==
    IF question.type \in {"MCQ", "Radio"}
    THEN IF question.options = EmptyList THEN None
         ELSE question.options[Min(ev.choice, Len(question.options))]
    ELSE ev.text

AnswerAccepted_RequiresAnswer(question, answer) == Truthy(answer)

\* Line 310.
AnswerAccepted(question, answer) == Truthy(answer) \/ question.type \in {"MCQ", "Radio"}

QuestionsDone_OffByOne(asked, questions) == asked > Len(questions)

\* Line 319.
QuestionsDone(asked, questions) == asked >= Len(questions)

RecordAnswer_NoCount(S, question, answer) ==
    [S EXCEPT !.conversation =
                  @ \o <<Turn("assistant", question.question, FALSE),
                         Turn("user", answer, FALSE)>>,
              !.answers = Append(@, [question |-> question.question, answer |-> answer,
                                     type |-> question.type]),
              !.rerun = TRUE,
              !.last.act = "answered"]

\* Lines 311-322.
RecordAnswer(S, question, answer) ==
    [S EXCEPT !.conversation =
                  @ \o <<Turn("assistant", question.question, FALSE),
                         Turn("user", answer, FALSE)>>,
              !.answers = Append(@, [question |-> question.question, answer |-> answer,
                                     type |-> question.type]),
              !.questions_asked = @ + 1,
              !.question_phase =
                  IF QuestionsDone(S.questions_asked + 1, S.current_questions)
                  THEN FALSE ELSE @,
              !.rerun = TRUE,
              !.last.act = "answered"]

\* Lines 301-324: the question form.
QuestionForm(S, ev) ==
    IF ev.type # "answer" THEN S
    ELSE LET question == S.current_questions[S.questions_asked + 1]
             answer == WidgetAnswer(question, ev)
             T == [S EXCEPT !.last.answer = <<answer>>]
         IN  IF AnswerAccepted(question, answer)
             THEN RecordAnswer(T, question, answer)
             ELSE [T EXCEPT !.last.act = "answer_rejected"]

\* Line 327.
AnalysisDue(S) == ~S.question_phase /\ ~S.final_response_generated

\* The final analysis of a task agent class (StrategicPlanningAgent and the
\* other classes of AGENT_CLASSES) that throws when it fails.
AgentThrows == [raised |-> TRUE, text |-> "e"]

\* Line 334: the call through st.session_state.agent.
CallFinalResponse(S, outcome) ==
    IF S.agent = None THEN [raised |-> TRUE, text |-> "NoneType has no attribute"]
    ELSE IF outcome = "raise" THEN AgentThrows
    ELSE generate_final_response(outcome)

StoreFinalResponse_Overwrites(S, response) ==
    [S EXCEPT !.api_call_count = @ + 1,
              !.conversation = <<Turn("assistant", response, TRUE)>>,
              !.final_response_generated = TRUE,
              !.last.act = "analysis"]

\* Lines 335-344.
StoreFinalResponse(S, response) ==
    [S EXCEPT !.api_call_count = @ + 1,
              !.conversation = Append(@, Turn("assistant", response, TRUE)),
              !.final_response_generated = TRUE,
              !.last.act = "analysis"]

\* Lines 352-356.
RecordAnalysisError(S, e) ==
    [S EXCEPT !.analysis_error = e,
              !.last.act = "analysis_failed"]

\* Lines 328-358: the final analysis.
FinalAnalysis(S, outcome) ==
    LET res == CallFinalResponse(S, outcome)
        T == [S EXCEPT !.rerun = TRUE,
                       !.last.completion = IF S.agent = None THEN "none" ELSE outcome]
    IN  IF res.raised
        THEN RecordAnalysisError(T, "Failed to generate analysis: " \o res.text)
        ELSE StoreFinalResponse(T, res.text)

FollowUpShown_NoCap(S) == S.final_response_generated /\ S.show_follow_up

FollowUpShown_NoRating(S) ==
    /\ S.final_response_generated
    /\ S.follow_up_count < max_follow_ups

\* Line 365.
FollowUpShown(S) ==
    /\ S.final_response_generated
    /\ S.follow_up_count < max_follow_ups
    /\ S.show_follow_up

\* Line 374: the call through st.session_state.agent.
CallFollowUp(S, outcome) ==
    IF S.agent = None THEN [raised |-> TRUE, text |-> "NoneType has no attribute"]
    ELSE generate_follow_up_response(outcome)

\* Lines 369-370.
AcceptFollowUp(S, text) ==
    [S EXCEPT !.conversation = Append(@, Turn("user", text, FALSE)),
              !.follow_up_count = @ + 1]

\* Lines 375-381.
StoreFollowUpResponse(S, response) ==
    [S EXCEPT !.api_call_count = @ + 1,
              !.conversation = Append(@, Turn("assistant", response, TRUE))]

\* Lines 366-385: the follow-up input.
FollowUp(S, ev, outcome) ==
    IF ev.type = "follow_up" /\ Truthy(ev.text)
    THEN LET A == AcceptFollowUp(S, ev.text)
             res == CallFollowUp(A, outcome)
             T == [A EXCEPT !.rerun = TRUE,
                            !.last.act = "follow_up",
                            !.last.completion = IF S.agent = None THEN "none" ELSE outcome]
         IN  IF res.raised THEN T ELSE StoreFollowUpResponse(T, res.text)
    ELSE S

\* Lines 361-385.
ErrorOrFollowUp(S, ev, outcome) ==
    IF Truthy(S.analysis_error) THEN S
    ELSE IF FollowUpShown(S) THEN FollowUp(S, ev, outcome)
    ELSE S

\* Lines 300-358.
QuestionOrAnalysis(S, ev, outcome) ==
    IF QuestionFormShown(S) THEN QuestionForm(S, ev)
    ELSE IF AnalysisDue(S) THEN FinalAnalysis(S, outcome)
    ELSE S

\* Line 275.
ChatShown(S) ==
    /\ DOMAIN S.company_info # {}
    /\ Truthy(S.selected_task)
    /\ S.current_questions # EmptyList

\* Lines 275-385: the main chat interface.
Chat(S, ev, outcome) ==
    IF ~ChatShown(S) THEN S
    ELSE LET A == RatingForms(S, ev) IN
         IF A.rerun THEN A
         ELSE LET B == QuestionOrAnalysis(A, ev, outcome) IN
              IF B.rerun THEN B ELSE ErrorOrFollowUp(B, ev, outcome)

\* Lines 140-385: main(), from the state S with the event ev; r is the backend
\* response to a question-generation call and outcome that of an agent call.
Main(S, ev, r, outcome) ==
    LET A == CompanyInfoForm(S, ev) IN
    IF A.rerun THEN A
    ELSE LET B == TaskSelection(A) IN
         IF B.rerun THEN B
         ELSE LET C == ClearHistory(ResolveQuestions(B, r), ev) IN
              IF C.rerun THEN C ELSE Chat(C, ev, outcome)

----------------------------------------------------------------------------
(* The state machine *)

Session ==
    [conversation |-> conversation, company_info |-> company_info,
     selected_task |-> selected_task, agent |-> agent,
     question_phase |-> question_phase, questions_asked |-> questions_asked,
     current_questions |-> current_questions, answers |-> answers,
     final_response_generated |-> final_response_generated,
     follow_up_count |-> follow_up_count, last_company_info |-> last_company_info,
     last_task |-> last_task, ratings |-> ratings, show_follow_up |-> show_follow_up,
     analysis_error |-> analysis_error, question_cache |-> question_cache,
     api_call_count |-> api_call_count, task_widget |-> task_widget,
     rerun |-> FALSE, last |-> NoTrace]

Commit(R) ==
    /\ conversation' = R.conversation
    /\ company_info' = R.company_info
    /\ selected_task' = R.selected_task
    /\ agent' = R.agent
    /\ question_phase' = R.question_phase
    /\ questions_asked' = R.questions_asked
    /\ current_questions' = R.current_questions
    /\ answers' = R.answers
    /\ final_response_generated' = R.final_response_generated
    /\ follow_up_count' = R.follow_up_count
    /\ last_company_info' = R.last_company_info
    /\ last_task' = R.last_task
    /\ ratings' = R.ratings
    /\ show_follow_up' = R.show_follow_up
    /\ analysis_error' = R.analysis_error
    /\ question_cache' = R.question_cache
    /\ api_call_count' = R.api_call_count
    /\ task_widget' = R.task_widget
    /\ pc' = IF R.rerun THEN "rerun" ELSE "idle"
    /\ last' = R.last
    /\ agent_raises' = agent_raises
    /\ keyed' = keyed

\* Lines 146-179 and 42-43: the session state of a new session.
Init ==
    /\ conversation = EmptyList
    /\ company_info = EmptyDict
    /\ selected_task = None
    /\ agent = None
    /\ question_phase = TRUE
    /\ questions_asked = 0
    /\ current_questions = EmptyList
    /\ answers = EmptyList
    /\ final_response_generated = FALSE
    /\ follow_up_count = 0
    /\ last_company_info = EmptyDict
    /\ last_task = None
    /\ ratings = EmptyDict
    /\ show_follow_up = FALSE
    /\ analysis_error = None
    /\ question_cache = EmptyDict
    /\ api_call_count = 0
    /\ task_widget = ""
    /\ pc = "idle"
    /\ last = NoTrace
    /\ agent_raises = FALSE
    /\ keyed = NoKeys

\* The widget of the event was reached (shown) in the execution that gave R.
Reached(R, ev) ==
    CASE ev.type = "profile" -> R.last.form # "none"
      [] ev.type = "clear" -> R.last.act = "clear"
      [] ev.type = "rate" -> R.last.act = "rated"
      [] ev.type = "answer" -> R.last.act \in {"answered", "answer_rejected"}
      [] ev.type = "follow_up" -> R.last.act = "follow_up"
      [] OTHER -> TRUE

\* The inputs an execution consumes, read off the execution P made with the
\* first of each: a backend response if it generates questions, an outcome if it
\* calls the agent.
ResponsesFor(P) == IF P.last.gen = "miss" THEN ResponseInputs ELSE {1}

OutcomesFor(P) ==
    IF P.last.completion = "none" THEN {"ok"}
    ELSE IF agent_raises /\ P.last.act = "analysis" THEN {"ok", "raise"}
    ELSE AgentOutcomes

\* Turns that report a failed agent call.
AgentFailures(conv) ==
    Cardinality({i \in 1..Len(conv) :
                    conv[i].content \in {generate_final_response("error").text,
                                         generate_follow_up_response("error").text}})

WithinBounds(R) ==
    /\ R.api_call_count <= MaxApiCalls
    /\ Cardinality(DOMAIN R.ratings) <= MaxRated
    /\ AgentFailures(R.conversation) <= MaxAgentFailures

\* One execution of the script for an event whose widget is on the page.
Run(S, ev) ==
    LET P == Main(S, ev, 1, "ok") IN
    \E r \in ResponsesFor(P), outcome \in OutcomesFor(P) :
        LET R == IF r = 1 /\ outcome = "ok" THEN P ELSE Main(S, ev, r, outcome) IN
        /\ Reached(R, ev)
        /\ WithinBounds(R)
        /\ Commit(R)

\* The user submits the company-info form.
SubmitCompanyInfo ==
    /\ pc = "idle"
    /\ \E form \in ProfileInputs :
           Run(Session, [type |-> "profile", form |-> form])

\* The user picks another entry of the task selectbox.
SelectTask ==
    /\ pc = "idle"
    /\ \E t \in TaskInputs :
           /\ t # task_widget
           /\ Run([Session EXCEPT !.task_widget = t], [type |-> "task"])

\* The user presses Clear History.
PressClearHistory ==
    /\ pc = "idle"
    /\ Run(Session, [type |-> "clear"])

\* The user submits the rating form of a Turn.
SubmitRating ==
    /\ pc = "idle"
    /\ \E idx \in 0..(Len(conversation) - 1), rating \in RatingInputs :
           Run(Session, [type |-> "rate", idx |-> idx, rating |-> rating])

\* The user submits the question form.
SubmitAnswer ==
    /\ pc = "idle"
    /\ \E choice \in ChoiceInputs, text \in TextInputs :
           Run(Session, [type |-> "answer", choice |-> choice, text |-> text])

\* The user sends a follow-up message.
SubmitFollowUp ==
    /\ pc = "idle"
    /\ Run(Session, [type |-> "follow_up", text |-> "tell me more"])

\* The execution queued by st.rerun().
Rerun ==
    /\ pc = "rerun"
    /\ Run(Session, NoEvent)

Next ==
    \/ SubmitCompanyInfo
    \/ SelectTask
    \/ PressClearHistory
    \/ SubmitRating
    \/ SubmitAnswer
    \/ SubmitFollowUp
    \/ Rerun

Spec == Init /\ [][Next]_vars

\* The session of a task agent class whose final analysis throws when it fails.
InitAgentThrows ==
    /\ Init!1 /\ Init!2 /\ Init!3 /\ Init!4 /\ Init!5 /\ Init!6 /\ Init!7 /\ Init!8
    /\ Init!9 /\ Init!10 /\ Init!11 /\ Init!12 /\ Init!13 /\ Init!14 /\ Init!15
    /\ Init!16 /\ Init!17 /\ Init!18 /\ Init!19 /\ Init!20
    /\ agent_raises = TRUE
    /\ Init!22

SpecAgentThrows == InitAgentThrows /\ [][Next]_vars

\* The keys of st.session_state, without the observation variables.
session_state ==
    <<conversation, company_info, selected_task, agent, question_phase, questions_asked,
      current_questions, answers, final_response_generated, follow_up_count,
      last_company_info, last_task, ratings, show_follow_up, analysis_error,
      question_cache, api_call_count>>

----------------------------------------------------------------------------
(* The cache key as text (lines 58-64 and 242).  A str is a sequence of       *)
(* characters; "quote" and "backslash" name the characters that JSON escapes, *)
(* and a field name or a task name is written as one character.  A dict is    *)
(* the sequence of its (key, value) pairs in insertion order.                 *)

EmptyStr == << >>

RECURSIVE PyGet(_, _, _)
\* d.get(k, default)
PyGet(d, k, default) ==
    IF d = EmptyList THEN default
    ELSE IF Head(d)[1] = k THEN Head(d)[2]
    ELSE PyGet(Tail(d), k, default)

\* Lines 58-64, on a dict given as pairs: the four pairs in the order written.
NormalizePairs(info) ==
    << <<"name", PyGet(info, "name", EmptyStr)>>,
       <<"industry", PyGet(info, "industry", EmptyStr)>>,
       <<"size", PyGet(info, "size", EmptyStr)>>,
       <<"description", PyGet(info, "description", EmptyStr)>> >>

\* The field names that occur, in the order sort_keys=True gives them.
KeyOrder == <<"description", "industry", "name", "size", "website">>

RECURSIVE SortKeysFrom(_, _)
SortKeysFrom(d, i) ==
    IF i > Len(KeyOrder) THEN EmptyList
    ELSE (IF \E j \in 1..Len(d) : d[j][1] = KeyOrder[i]
          THEN << <<KeyOrder[i], PyGet(d, KeyOrder[i], EmptyStr)>> >>
          ELSE EmptyList) \o SortKeysFrom(d, i + 1)

\* The items of the dict sorted by key.
SortKeys(d) == SortKeysFrom(d, 1)

JsonEscape_None(str) == str

RECURSIVE JsonEscape(_)
\* json.dumps of a str, between the quotes: a quote and a backslash are escaped.
JsonEscape(str) ==
    IF str = EmptyStr THEN EmptyStr
    ELSE (IF Head(str) \in {"quote", "backslash"}
          THEN <<"backslash", Head(str)>>
          ELSE <<Head(str)>>) \o JsonEscape(Tail(str))

JsonString(str) == <<"quote">> \o JsonEscape(str) \o <<"quote">>

RECURSIVE JsonItems(_)
\* "key": "value", separated by a comma and a space.
JsonItems(pairs) ==
    IF pairs = EmptyList THEN EmptyStr
    ELSE JsonString(<<Head(pairs)[1]>>) \o <<":", " ">> \o JsonString(Head(pairs)[2])
         \o (IF Tail(pairs) = EmptyList THEN EmptyStr
             ELSE <<",", " ">> \o JsonItems(Tail(pairs)))

\* json.dumps(d, sort_keys=True) of a dict of strings.
JsonDumpsText(d) == <<"{">> \o JsonItems(SortKeys(d)) \o <<"}">>

\* Line 242: the f-string of the task, an underscore and the dumped Profile.
CacheKeyText(task, info) == <<task, "_">> \o JsonDumpsText(NormalizePairs(info))

\* Field values: empty, a letter, and a text that reads as the end of one JSON
\* string and the start of the item of the next field.
ValueInputs ==
    { EmptyStr, <<"a">>,
      <<"quote", ",", " ", "quote", "industry", "quote", ":", " ", "quote">> }

\* A Profile dict with the given values: the four fields as the form writes them
\* (lines 191-196), the same in another order with a further field, or only the
\* fields that are not empty.
DictLayouts(n, i, s, d) ==
    { << <<"name", n>>, <<"industry", i>>, <<"size", s>>, <<"description", d>> >>,
      << <<"website", <<"a">>>>, <<"description", d>>, <<"size", s>>,
         <<"industry", i>>, <<"name", n>> >>,
      SelectSeq(<< <<"name", n>>, <<"industry", i>>, <<"size", s>>, <<"description", d>> >>,
                LAMBDA pair : pair[2] # EmptyStr) }

DictInputs ==
    UNION { DictLayouts(n, i, s, d) : n \in ValueInputs, i \in ValueInputs,
                                      s \in {EmptyStr, <<"a">>}, d \in ValueInputs }

\* Two Profiles and a task are given.
KeyInit ==
    /\ Init!1 /\ Init!2 /\ Init!3 /\ Init!4 /\ Init!5 /\ Init!6 /\ Init!7 /\ Init!8
    /\ Init!9 /\ Init!10 /\ Init!11 /\ Init!12 /\ Init!13 /\ Init!14 /\ Init!15
    /\ Init!16 /\ Init!17 /\ Init!18 /\ Init!19 /\ Init!20 /\ Init!21
    /\ \E a \in DictInputs, b \in DictInputs, task \in TaskInputs :
           keyed = [done |-> FALSE, task |-> task, a |-> a, b |-> b]

\* The cache key of each Profile is computed (line 242).
ComputeKeys ==
    /\ ~keyed.done
    /\ keyed' = [done |-> TRUE, task |-> keyed.task, a |-> keyed.a, b |-> keyed.b,
                 key_a |-> CacheKeyText(keyed.task, keyed.a),
                 key_b |-> CacheKeyText(keyed.task, keyed.b)]
    /\ UNCHANGED <<session_state, task_widget, pc, last, agent_raises>>

KeyNext == ComputeKeys

KeySpec == KeyInit /\ [][KeyNext]_vars

----------------------------------------------------------------------------
(* Properties *)

\* C1: in every reachable state the number of recorded answers equals
\* questions_asked, and questions_asked does not exceed the length of the
\* current question set.
C1_AnswersMatchQuestionsAsked ==
    /\ Len(answers) = questions_asked
    /\ questions_asked <= Len(current_questions)

\* A five-question set fully answered, analysed, rated and followed up.
C1_Witness ==
    /\ Len(current_questions) = 5
    /\ questions_asked = 5
    /\ Len(answers) = 5
    /\ follow_up_count >= 1
    /\ DOMAIN ratings # {}

\* C2: follow_up_count never exceeds max_follow_ups (5), and from a state where
\* it equals 5 no step accepts a follow-up: follow_up_count stays (or is reset to
\* 0 by a reset) and no Turn is appended to the conversation.
C2_FollowUpCap ==
    /\ [](follow_up_count <= max_follow_ups)
    /\ [][follow_up_count = max_follow_ups =>
            /\ last'.act # "follow_up"
            /\ follow_up_count' \in {follow_up_count, 0}
            /\ conversation' \in {conversation, EmptyList}]_vars

\* Five follow-ups were accepted and the page is waiting for the user.
C2_Witness ==
    /\ follow_up_count = max_follow_ups
    /\ pc = "idle"
    /\ Len(conversation) = 2 * questions_asked + 1 + 2 * max_follow_ups

\* C3: question_phase is false exactly when a resolved question set has been
\* answered in full; it becomes false only in the execution that records the
\* answer making questions_asked equal to the length of the set; and with a
\* five-question set there are then exactly 5 answers.
C3_PhaseLeftAtLastAnswer ==
    /\ [](~question_phase <=>
            (current_questions # EmptyList /\ questions_asked = Len(current_questions)))
    /\ []((~question_phase /\ Len(current_questions) = 5) => Len(answers) = 5)
    /\ [][(question_phase /\ ~question_phase') =>
            /\ last'.act = "answered"
            /\ questions_asked' = questions_asked + 1
            /\ questions_asked' = Len(current_questions)
            /\ current_questions' = current_questions]_vars

\* The fifth answer of a five-question set has just been recorded.
C3_Witness ==
    /\ ~question_phase
    /\ last.act = "answered"
    /\ Len(current_questions) = 5
    /\ Len(answers) = 5

\* C4: an execution that handles a submitted company-info form whose normalized
\* fields equal the committed Profile changes no key of the session state, queues
\* no rerun and makes no question-generation call.
C4_SameProfileNoOp ==
    [][(DOMAIN last'.submitted # {} /\ DictEq(last'.submitted, company_info)) =>
          /\ UNCHANGED session_state
          /\ UNCHANGED task_widget
          /\ last'.gen = "none"
          /\ pc' = "idle"]_vars

\* The unchanged Profile was resubmitted in the follow-up phase.
C4_Witness ==
    /\ last.form = "same"
    /\ DictEq(last.submitted, company_info)
    /\ follow_up_count > 0
    /\ DOMAIN question_cache # {}

\* The key under which the current question set is resolved.
CurrentKey == CacheKey(selected_task, company_info)

\* C5: when an execution resolves the question set (it was empty and is not any
\* more) and the key of (task, Profile) is in the cache, the set becomes the
\* stored one, the generator is not called and neither api_call_count nor the
\* cache changes; when the key is not in the cache the generator is called once
\* and the cache is extended by exactly that key, mapped to the new set.
C5_CacheHitReturnsStored ==
    [][(current_questions = EmptyList /\ current_questions' # EmptyList) =>
          LET key == CacheKey(selected_task', company_info') IN
          IF key \in DOMAIN question_cache
          THEN /\ current_questions' = question_cache[key]
               /\ last'.gen = "hit"
               /\ api_call_count' = api_call_count
               /\ question_cache' = question_cache
          ELSE /\ last'.gen = "miss"
               /\ api_call_count' \in {api_call_count, api_call_count + 1}
               /\ DOMAIN question_cache' = DOMAIN question_cache \cup {key}
               /\ \A k \in DOMAIN question_cache : question_cache'[k] = question_cache[k]
               /\ question_cache'[key] = current_questions']_vars

\* A set was taken from the cache, which holds the sets of two tasks.
C5_Witness ==
    /\ last.gen = "hit"
    /\ Cardinality(DOMAIN question_cache) = 2
    /\ current_questions = question_cache[CurrentKey]

\* C6: a rating stored for a Turn index is never replaced by another value: in
\* every step each index that stays rated keeps its value, and ratings are only
\* removed all at once, together with the conversation's reset.
C6_RatingNeverOverwritten ==
    [][/\ \A idx \in DOMAIN ratings \cap DOMAIN ratings' : ratings'[idx] = ratings[idx]
       /\ (DOMAIN ratings \subseteq DOMAIN ratings' \/ DOMAIN ratings' = {})]_vars

\* A rating is stored and the user has acted again since.
C6_Witness ==
    /\ DOMAIN ratings # {}
    /\ last.act = "follow_up"
    /\ follow_up_count >= 2

\* The backend response gives the generator nothing to keep.
GenerationFails(response) ==
    \/ response.call # "ok"
    \/ ~response.text_ok
    \/ ~JsonLoadsOk(StripFences(response.text))
    \/ ~StripFences(response.text)[1].array
    \/ ValidQuestions(StripFences(response.text)[1].items) = EmptyList

\* One MCQ with 4 options, one Radio with 3 options, one Input without options.
IsFallbackSet(questions) ==
    /\ Len(questions) = 3
    /\ questions[1].type = "MCQ" /\ Len(questions[1].options) = 4
    /\ questions[2].type = "Radio" /\ Len(questions[2].options) = 3
    /\ questions[3].type = "Input" /\ questions[3].options = EmptyList

\* C7: after a question-generation call the resolved question set is never
\* empty, and when the completion call failed, its text was no JSON array or no
\* item passed validation, the set is the fixed fallback set of 3 questions.
C7_GenerationFallsBack ==
    last.gen = "miss" =>
        /\ current_questions # EmptyList
        /\ question_cache[CurrentKey] = current_questions
        /\ GenerationFails(ResponsePool[last.resp]) =>
               (current_questions = fallback_questions /\ IsFallbackSet(current_questions))

\* The backend answered with text that is no JSON and the fallback set is in use.
C7_Witness ==
    /\ last.gen = "miss"
    /\ last.resp = 3
    /\ IsFallbackSet(current_questions)

\* C8 (as claimed): an analysis attempt whose completion call fails records a
\* session-level error and leaves final_response_generated false, the answers
\* and the conversation unchanged; an attempt whose call succeeds appends
\* exactly one final Turn and sets final_response_generated.
C8_Claimed ==
    [][(~question_phase /\ ~final_response_generated /\ last'.completion # "none") =>
          IF last'.completion = "error"
          THEN /\ Truthy(analysis_error')
               /\ ~final_response_generated'
               /\ answers' = answers
               /\ conversation' = conversation
          ELSE /\ final_response_generated'
               /\ Len(conversation') = Len(conversation) + 1
               /\ conversation'[Len(conversation')].is_final_or_follow_up]_vars

\* C9 (as claimed): right after an execution that commits a changed Profile the
\* cache, the answers and the conversation are empty, the counters are zero and
\* no rating is stored.
C9_Claimed ==
    last.form = "changed" =>
        /\ question_cache = EmptyDict
        /\ answers = EmptyList
        /\ conversation = EmptyList
        /\ questions_asked = 0
        /\ follow_up_count = 0
        /\ api_call_count = 0
        /\ DOMAIN ratings = {}

\* C10: an execution that finds the selectbox on a task other than the committed
\* one resets conversation, answers, questions_asked, final_response_generated,
\* follow_up_count and ratings to their initial values and leaves the committed
\* Profile and the question cache as they were.
C10_TaskChangeResetsTaskScope ==
    [][(Truthy(task_widget') /\ task_widget' # selected_task /\ last'.form # "changed") =>
          /\ selected_task' = task_widget'
          /\ conversation' = EmptyList
          /\ answers' = EmptyList
          /\ questions_asked' = 0
          /\ final_response_generated' = FALSE
          /\ follow_up_count' = 0
          /\ DOMAIN ratings' = {}
          /\ company_info' = company_info
          /\ question_cache' = question_cache]_vars

\* The task was changed while the cache held the set of the task left behind.
C10_Witness ==
    /\ last.act = "task_changed"
    /\ DOMAIN company_info # {}
    /\ DOMAIN question_cache # {}
    /\ conversation = EmptyList

\* The execution that leads to the next state handles a submitted company-info
\* form whose normalized fields differ from the committed Profile.
ProfileChangeStep ==
    DOMAIN last'.submitted # {} /\ ~DictEq(last'.submitted, company_info)

\* The execution that leads to the next state finds the selectbox on a task other
\* than the committed one, and no Profile change before it.
TaskChangeStep ==
    /\ ~ProfileChangeStep
    /\ Truthy(task_widget') /\ task_widget' # selected_task

\* Every entry of the cache is kept, with its question set.
CacheOnlyExtended ==
    /\ DOMAIN question_cache \subseteq DOMAIN question_cache'
    /\ \A k \in DOMAIN question_cache : question_cache'[k] = question_cache[k]

\* C11 (as claimed): the cache becomes empty in every execution that commits a
\* changed Profile, that changes the task or that handles Clear History, and is
\* only extended by every other step.
C11_Claimed ==
    [][IF ProfileChangeStep \/ TaskChangeStep \/ last'.act = "clear"
       THEN question_cache' = EmptyDict
       ELSE CacheOnlyExtended]_vars

\* C11 (amended): the cache becomes empty in every execution that commits a
\* changed Profile or that handles Clear History; every other step, a task change
\* included, keeps every entry with its question set and at most adds entries.
C11_CacheClearedWholesale ==
    [][IF ProfileChangeStep \/ last'.act = "clear"
       THEN question_cache' = EmptyDict
       ELSE CacheOnlyExtended]_vars

\* A changed Profile was committed after question sets had been generated and
\* answered under the old one, and the cache is empty.
C11_Witness ==
    /\ last.form = "changed"
    /\ question_cache = EmptyDict
    /\ conversation # EmptyList
    /\ api_call_count >= 2

\* The question sets stored in the cache or in use by the session.
SessionQuestionSets ==
    {question_cache[k] : k \in DOMAIN question_cache}
        \cup (IF current_questions # EmptyList THEN {current_questions} ELSE {})

\* The set has a question of the given type.
HasType(questions, type) == \E i \in 1..Len(questions) : questions[i].type = type

\* C12 (as claimed): every question set returned by generate_task_questions,
\* stored in the cache or in use by the session has at most 5 questions and at
\* least one MCQ, one Radio and one Input question.
C12_Claimed ==
    \A questions \in SessionQuestionSets :
        /\ Len(questions) <= 5
        /\ HasType(questions, "MCQ")
        /\ HasType(questions, "Radio")
        /\ HasType(questions, "Input")

\* The per-item rule as stated: type and question are required, an MCQ or Radio
\* item needs a non-empty options array, an Input item gets options [] by default.
StatedKeepItem(q) ==
    IF "type" \in DOMAIN q /\ "question" \in DOMAIN q
    THEN IF q.type \in {"MCQ", "Radio"}
         THEN IF "options" \in DOMAIN q /\ q.options # EmptyList THEN <<q>> ELSE EmptyList
         ELSE IF q.type = "Input"
              THEN <<[type |-> q.type, question |-> q.question,
                      options |-> DictGet(q, "options", EmptyList)]>>
              ELSE EmptyList
    ELSE EmptyList

RECURSIVE StatedValidQuestions(_)
StatedValidQuestions(items) ==
    IF items = EmptyList THEN EmptyList
    ELSE StatedKeepItem(Head(items)) \o StatedValidQuestions(Tail(items))

\* C13 (as claimed): the set generated from a JSON array is made of the items
\* the stated per-item rule keeps, and no MCQ or Radio question of a set stored
\* or in use has empty options.
C13_Claimed ==
    /\ (last.gen = "miss" /\ ~GenerationFails(ResponsePool[last.resp])) =>
           LET items == StripFences(ResponsePool[last.resp].text)[1].items
               kept == StatedValidQuestions(items)
           IN  current_questions =
                   IF kept # EmptyList THEN Take(kept, 5) ELSE fallback_questions
    /\ \A questions \in SessionQuestionSets : \A i \in 1..Len(questions) :
           questions[i].type \in {"MCQ", "Radio"} => questions[i].options # EmptyList

\* C14 (as claimed): an execution whose final-analysis or follow-up completion
\* call fails leaves api_call_count unchanged.
C14_Claimed ==
    [][last'.completion = "error" => api_call_count' = api_call_count]_vars

\* C15: an execution that accepts a follow-up and whose completion call fails
\* increments follow_up_count by one and appends two Turns to the conversation:
\* the user's message, then the fixed apology as an assistant Turn with
\* is_final_or_follow_up true.
C15_FailedFollowUpCounts ==
    [][(last'.act = "follow_up" /\ last'.completion = "error") =>
          /\ follow_up_count' = follow_up_count + 1
          /\ follow_up_count' <= max_follow_ups
          /\ Len(conversation') = Len(conversation) + 2
          /\ SubSeq(conversation', 1, Len(conversation)) = conversation
          /\ conversation'[Len(conversation) + 1].role = "user"
          /\ conversation'[Len(conversation) + 2] =
                 [role |-> "assistant", content |-> "Unable to process follow-up question.",
                  is_final_or_follow_up |-> TRUE]]_vars

\* The fifth follow-up failed: the apology is the last Turn and no follow-up is
\* left.
C15_Witness ==
    /\ last.act = "follow_up"
    /\ last.completion = "error"
    /\ follow_up_count = max_follow_ups
    /\ conversation[Len(conversation)].content = "Unable to process follow-up question."

\* The value of a field of a Profile, empty when the Profile has no such field.
Field(profile, k) ==
    IF \E j \in 1..Len(profile) : profile[j][1] = k
    THEN profile[CHOOSE j \in 1..Len(profile) : profile[j][1] = k][2]
    ELSE EmptyStr

\* The two Profiles agree on name, industry, size and description.
SameNormalized(a, b) ==
    \A k \in {"name", "industry", "size", "description"} : Field(a, k) = Field(b, k)

\* C16: for one task, two Profiles get the same cache key exactly when they
\* agree on name, industry, size and description, whatever the order of their
\* fields and whatever other fields they have.
C16_CacheKeyInjective ==
    keyed.done => (keyed.key_a = keyed.key_b <=> SameNormalized(keyed.a, keyed.b))

\* Two Profiles written differently, one of them with a quote in a value, got
\* the same key.
C16_Witness ==
    /\ keyed.done
    /\ keyed.a # keyed.b
    /\ keyed.key_a = keyed.key_b
    /\ "quote" \in {Field(keyed.a, "description")[j] :
                       j \in 1..Len(Field(keyed.a, "description"))}

\* A Profile with name and industry is committed and a task is selected.
ProfileAndTask ==
    /\ DOMAIN company_info # {}
    /\ Truthy(company_info.name) /\ Truthy(company_info.industry)
    /\ Truthy(selected_task)

\* C17: in every reachable state a resolved question set, and an execution that
\* resolved one, come with a complete committed Profile and a selected task;
\* final_response_generated implies that a non-empty question set has been
\* answered in full; follow_up_count > 0 implies final_response_generated.  The
\* analysis is generated only from a state where the question phase has ended,
\* and a follow-up is counted only from a state where the analysis exists.
C17_PhaseOrder ==
    /\ []((current_questions # EmptyList \/ last.gen # "none") => ProfileAndTask)
    /\ [](final_response_generated =>
             /\ current_questions # EmptyList
             /\ questions_asked = Len(current_questions)
             /\ ~question_phase)
    /\ [](follow_up_count > 0 => final_response_generated)
    /\ [][(~final_response_generated /\ final_response_generated') =>
             (~question_phase /\ questions_asked = Len(current_questions)
              /\ current_questions' = current_questions)]_vars
    /\ [][follow_up_count' > follow_up_count =>
             (final_response_generated /\ final_response_generated')]_vars

\* The fallback set was answered, the analysis generated and rated and one
\* follow-up accepted; the page waits for the user.
C17_Witness ==
    /\ IsFallbackSet(current_questions)
    /\ questions_asked = 3
    /\ final_response_generated
    /\ follow_up_count = 1
    /\ pc = "idle"

\* The sequence p is the beginning of the sequence q.
IsPrefix(p, q) == Len(p) <= Len(q) /\ SubSeq(q, 1, Len(p)) = p

\* The execution that leads to the next state is a reset: a Profile change, a
\* task change or Clear History.
ResetStep == ProfileChangeStep \/ TaskChangeStep \/ last'.act = "clear"

\* C18: every step that is not a reset leaves the conversation as it was or
\* appends Turns at its end, the Turns already there staying as they were and
\* where they were; a reset leaves the conversation as it was or empties it.
C18_ConversationAppendOnly ==
    [][IF ResetStep
       THEN conversation' \in {conversation, EmptyList}
       ELSE IsPrefix(conversation, conversation')]_vars

\* A conversation of five questions and answers, the analysis and a follow-up
\* with its reply.
C18_Witness ==
    /\ Len(current_questions) = 5
    /\ Len(conversation) = 2 * 5 + 1 + 2
    /\ last.act = "follow_up"
    /\ conversation[11].is_final_or_follow_up

\* C19: an execution that handles a submitted question form rejects an empty
\* answer to an Input question and then changes no key of the session state and
\* queues no rerun; it accepts every other submission, in particular every one
\* to an MCQ or Radio question whatever the widget's value: questions_asked goes
\* up by one, the question as an assistant Turn and the answer as a user Turn are
\* appended to the conversation, and one Answer is appended to the answers.
C19_AnswerValidation ==
    [][last'.answer # EmptyList =>
          LET question == current_questions[questions_asked + 1]
              answer == last'.answer[1]
          IN  IF question.type = "Input" /\ answer = ""
              THEN /\ UNCHANGED session_state
                   /\ pc' = "idle"
              ELSE /\ questions_asked' = questions_asked + 1
                   /\ conversation' = conversation \o
                          << [role |-> "assistant", content |-> question.question,
                              is_final_or_follow_up |-> FALSE],
                             [role |-> "user", content |-> answer,
                              is_final_or_follow_up |-> FALSE] >>
                   /\ answers' = Append(answers, [question |-> question.question,
                                                  answer |-> answer,
                                                  type |-> question.type])]_vars

\* An MCQ question without options was answered with the widget's None, and an
\* empty answer to the Input question after it has just been rejected.
C19_Witness ==
    /\ last.act = "answer_rejected"
    /\ last.answer = <<"">>
    /\ Len(answers) = 2
    /\ answers[2].type = "MCQ" /\ answers[2].answer = None
    /\ current_questions[3].type = "Input"

\* The page has the follow-up input: a message sent now is accepted.
FollowUpAccepted ==
    LET ev == [type |-> "follow_up", text |-> "tell me more"] IN
    Reached(Main(Session, ev, 1, "ok"), ev)

AnalysisIndex == 2 * Len(answers)

\* C21: in every reachable state follow_up_count > 0 implies that the
\* final-analysis Turn is in the conversation and has a recorded rating; a
\* follow-up is accepted only from a state where that rating is recorded, and it
\* needs no rating of any later Turn.
C21_FollowUpGatedByRating ==
    /\ [](follow_up_count > 0 =>
             /\ AnalysisIndex < Len(conversation)
             /\ conversation[AnalysisIndex + 1].is_final_or_follow_up
             /\ AnalysisIndex \in DOMAIN ratings
             /\ show_follow_up)
    /\ [][follow_up_count' > follow_up_count =>
             (AnalysisIndex \in DOMAIN ratings /\ ratings' = ratings)]_vars

\* Two follow-ups were accepted with the analysis as the only rated Turn.
C21_Witness ==
    /\ follow_up_count = 2
    /\ DOMAIN ratings = {AnalysisIndex}
    /\ Len(conversation) = AnalysisIndex + 5
    /\ pc = "idle"

\* The tasks of the selectbox.
Tasks == {TaskOptions[i] : i \in 1..Len(TaskOptions)}

\* C22: in every reachable state a non-empty current question set is the cache
\* entry stored under the key of the selected task and the committed Profile,
\* and every key of the cache is the key of some task and the committed Profile.
C22_CacheConsistent ==
    /\ current_questions # EmptyList =>
           /\ CurrentKey \in DOMAIN question_cache
           /\ question_cache[CurrentKey] = current_questions
    /\ \A key \in DOMAIN question_cache :
           \E task \in Tasks : key = CacheKey(task, company_info)

\* The second Profile is committed and the cache holds the sets of two tasks,
\* generated since the sets of the first Profile were dropped.
C22_Witness ==
    /\ DOMAIN company_info # {}
    /\ company_info.description = "shops"
    /\ Cardinality(DOMAIN question_cache) = 2
    /\ current_questions # EmptyList
    /\ api_call_count >= 3

====
